---------------------------- MODULE Spec2Model ----------------------------
(***************************************************************************)
(* A model of the synchronous Distance-Vector routing simulator of         *)
(* src/DVA.py: init_tables, send_vector and the round loop of              *)
(* distance_vector.                                                        *)
(*                                                                         *)
(* Node names are opaque labels in the program; here they are the positive *)
(* integers, and Python's None is the integer 0.  A Python dict is an      *)
(* association list (a sequence of <<key, value>> pairs in insertion       *)
(* order) where the iteration order matters (neighbors[u]) and a function  *)
(* where only lookups happen (dist, next_hop).                             *)
(***************************************************************************)
EXTENDS Integers, Sequences, FiniteSets, TLC

VARIABLES
    nodes,                  \* argument: the list of node names
    edges,                  \* argument: the list of <<u, v, cost>> links
    use_poisoned_reverse,   \* argument: the flag
    state,                  \* where distance_vector is: "start", "Running",
                            \*   "Converged", "AbortedOnIterationLimit", "KeyError"
    neighbors,              \* node -> association list of <<neighbor, cost>>
    dist,                   \* node -> (dest -> cost)
    next_hop,               \* node -> (dest -> next hop or None)
    iteration,              \* the loop counter
    updated,                \* the flag of the last round
    old_dist,               \* the deep copy of dist taken at the start of the last round
    old_next,               \* the deep copy of next_hop taken at the start of the last round
    advertised,             \* <<v, u>> -> the vector v advertised to u in the last round
    result,                 \* what distance_vector returned
    sv_args,                \* the arguments of a direct call of send_vector
    sv_vec,                 \* what that call returned
    message,                \* the message given to bit_stuff / char_stuff
    frame,                  \* the frame the sender returned
    recovered               \* what the receiver returned for that frame

vars == <<nodes, edges, use_poisoned_reverse, state, neighbors, dist, next_hop,
          iteration, updated, old_dist, old_next, advertised, result,
          sv_args, sv_vec, message, frame, recovered>>

dv_vars == <<nodes, edges, use_poisoned_reverse, state, neighbors, dist, next_hop,
             iteration, updated, old_dist, old_next, advertised, result>>

sv_vars == <<sv_args, sv_vec>>

st_vars == <<message, frame, recovered>>

(***************************************************************************)
(* Program constants.                                                      *)
(***************************************************************************)
INF == 1000000000

None == 0

SafetyLimit == 50

(***************************************************************************)
(* Bounds of the inputs.                                                   *)
(***************************************************************************)
MaxEdges == 3

MaxChars == 2

(***************************************************************************)
(* Helpers on sequences and association lists (Python dicts).              *)
(***************************************************************************)
Range(s) == {s[i] : i \in DOMAIN s}

Reverse(s) == [i \in 1..Len(s) |-> s[Len(s) + 1 - i]]

\* the element of a one-element set.  The({F(x) : x \in {e}}) is F(e) with e
\* evaluated once, where F(e) evaluates e at every use of its parameter.
The(S) == CHOOSE x \in S : TRUE

Keys(d) == {d[i][1] : i \in DOMAIN d}

\* d[k] for a key k of the dict d
DictGet(d, k) == d[CHOOSE i \in DOMAIN d : d[i][1] = k][2]

\* d[k] = val: an existing key keeps its place, a new key goes last
DictSet(d, k, val) ==
    IF k \in Keys(d)
    THEN [i \in DOMAIN d |-> IF d[i][1] = k THEN <<k, val>> ELSE d[i]]
    ELSE Append(d, <<k, val>>)

(***************************************************************************)
(* init_tables                                                             *)
(***************************************************************************)
\* lines 28-29: neighbors[u][v] = c; neighbors[v][u] = c
AddEdge(nb, e) ==
    LET nb1 == [nb EXCEPT ![e[1]] = DictSet(@, e[2], e[3])]
    IN  [nb1 EXCEPT ![e[2]] = DictSet(@, e[1], e[3])]

RECURSIVE AddEdges(_, _, _)
AddEdges(nb, es, i) ==
    IF i > Len(es) THEN nb ELSE AddEdges(AddEdge(nb, es[i]), es, i + 1)

\* lines 26-29
InitNeighbors(ns, es) == AddEdges([u \in Range(ns) |-> <<>>], es, 1)

\* neighbors[u] / neighbors[v] raises KeyError for a name that is not in nodes
RaisesKeyError(ns, es) ==
    \E i \in DOMAIN es : es[i][1] \notin Range(ns) \/ es[i][2] \notin Range(ns)

\* lines 31, 34-35, 37-38: the neighbor loop runs after dist[u][u] = 0
InitDist(ns, nb) ==
    [u \in Range(ns) |->
        [d \in Range(ns) |->
            IF d \in Keys(nb[u]) THEN DictGet(nb[u], d)
            ELSE IF d = u THEN 0
            ELSE INF]]

\* lines 32, 34, 36-37, 39
InitNextHop(ns, nb) ==
    [u \in Range(ns) |->
        [d \in Range(ns) |->
            IF d \in Keys(nb[u]) THEN d
            ELSE IF d = u THEN u
            ELSE None]]

(***************************************************************************)
(* send_vector                                                             *)
(***************************************************************************)
\* lines 50-58: both branches of the if store the cost of dist_from
send_vector(from_node, to_node, dist_from, flag) ==
    [dest \in DOMAIN dist_from |->
        IF flag THEN dist_from[dest] ELSE dist_from[dest]]

(***************************************************************************)
(* One round of distance_vector                                            *)
(***************************************************************************)
\* (mutant) the comparison of the poisoning is the wrong way round
AdvertiseInverted(ns, v, u, od, on, flag) ==
    [dest \in Range(ns) |->
        IF flag /\ on[v][dest] # u THEN INF ELSE od[v][dest]]

\* lines 80-86: the vector v advertises to u, from the snapshot
Advertise(ns, v, u, od, on, flag) ==
    [dest \in Range(ns) |->
        IF flag /\ on[v][dest] = u THEN INF ELSE od[v][dest]]

\* (mutant) any different cost is stored
ImprovesOrDiffers(via_v, current) == via_v # current

\* (mutant) an equal cost is stored too
ImprovesOrEquals(via_v, current) == via_v <= current

\* line 95
Improves(via_v, current) == via_v < current

\* (mutant) an improvement stores the cost and leaves the next hop as it was
RelaxEntryKeepsHop(u, v, cost_uv, dest, adv, od, cur_cost, cur_next) ==
    IF od[u][v] >= INF
    THEN <<cur_cost, cur_next, FALSE>>
    ELSE LET via_v == cost_uv + adv[dest]
         IN  IF Improves(via_v, cur_cost)
             THEN <<via_v, cur_next, TRUE>>
             ELSE <<cur_cost, cur_next, FALSE>>

\* lines 89-98 for one dest: the entry <<cost, next hop, changed>> of u for dest
\* after hearing adv from neighbor v
RelaxEntry(u, v, cost_uv, dest, adv, od, cur_cost, cur_next) ==
    IF od[u][v] >= INF
    THEN <<cur_cost, cur_next, FALSE>>
    ELSE LET via_v == cost_uv + adv[dest]
         IN  IF Improves(via_v, cur_cost)
             THEN <<via_v, v, TRUE>>
             ELSE <<cur_cost, cur_next, FALSE>>

\* lines 86, 96-98: what the round has written so far (T: dist, next_hop,
\* updated, advertised) with the entries new of u and the vector adv of v to u
Store(ns, T, u, v, adv, new) ==
    [dist       |-> [T.dist EXCEPT ![u] = [dest \in Range(ns) |-> new[dest][1]]],
     next_hop   |-> [T.next_hop EXCEPT ![u] = [dest \in Range(ns) |-> new[dest][2]]],
     updated    |-> T.updated \/ \E dest \in Range(ns) : new[dest][3],
     advertised |-> (<<v, u>> :> adv) @@ T.advertised]

\* lines 89-98: for dest in nodes; each dest touches only the entry of u for dest
Relax(ns, T, u, v, cost_uv, adv, od) ==
    The({Store(ns, T, u, v, adv, new) :
            new \in {[dest \in Range(ns) |->
                         RelaxEntry(u, v, cost_uv, dest, adv, od,
                                    T.dist[u][dest], T.next_hop[u][dest])]}})

\* (mutant) v advertises from the tables the round is writing
ReceiveFromCurrent(ns, T, u, v, cost_uv, od, on, flag) ==
    The({Relax(ns, T, u, v, cost_uv, adv, od) :
            adv \in {Advertise(ns, v, u, T.dist, T.next_hop, flag)}})

\* lines 78-98: u hears neighbor v, who advertises from the snapshot od, on
Receive(ns, T, u, v, cost_uv, od, on, flag) ==
    The({Relax(ns, T, u, v, cost_uv, adv, od) :
            adv \in {Advertise(ns, v, u, od, on, flag)}})

\* line 77: for v, cost_uv in neighbors[u].items()
RECURSIVE NeighborLoop(_, _, _, _, _, _, _, _)
NeighborLoop(ns, T, u, items, i, od, on, flag) ==
    IF i > Len(items) THEN T
    ELSE The({NeighborLoop(ns, T1, u, items, i + 1, od, on, flag) :
                 T1 \in {Receive(ns, T, u, items[i][1], items[i][2], od, on, flag)}})

\* line 76: for u in nodes
RECURSIVE NodeLoop(_, _, _, _, _, _, _)
NodeLoop(ns, T, nb, i, od, on, flag) ==
    IF i > Len(ns) THEN T
    ELSE The({NodeLoop(ns, T1, nb, i + 1, od, on, flag) :
                 T1 \in {NeighborLoop(ns, T, ns[i], nb[ns[i]], 1, od, on, flag)}})

\* lines 69-98: the round from tables d, n (the snapshot is a copy of them)
RoundOf(ns, nb, d, n, flag) ==
    NodeLoop(ns, [dist |-> d, next_hop |-> n, updated |-> FALSE, advertised |-> <<>>],
             nb, 1, d, n, flag)

\* (mutant) the loop gives up one round early
OverLimitEarly(it) == it >= SafetyLimit

\* line 106
OverLimit(it) == it > SafetyLimit

\* (mutant) the loop breaks on a round that changed something
AfterRoundInverted(upd, it) ==
    IF upd THEN "Converged"
    ELSE IF OverLimit(it) THEN "AbortedOnIterationLimit"
    ELSE "Running"

\* lines 102-110: where the loop goes after a round
AfterRound(upd, it) ==
    IF ~upd THEN "Converged"
    ELSE IF OverLimit(it) THEN "AbortedOnIterationLimit"
    ELSE "Running"

\* line 112
ReturnValue(d, n) == [dist |-> d, next_hop |-> n]

\* lines 65-110 as a function: the loop from tables d, n with the counter at it,
\* until it stops or k rounds are done
RECURSIVE RunTo(_, _, _, _, _, _, _)
RunTo(ns, nb, d, n, flag, it, k) ==
    IF it >= k
    THEN [dist |-> d, next_hop |-> n, iteration |-> it, state |-> "Running"]
    ELSE The({IF AfterRound(T.updated, it + 1) = "Running"
              THEN RunTo(ns, nb, T.dist, T.next_hop, flag, it + 1, k)
              ELSE [dist |-> T.dist, next_hop |-> T.next_hop, iteration |-> it + 1,
                    state |-> AfterRound(T.updated, it + 1)] :
                 T \in {RoundOf(ns, nb, d, n, flag)}})

\* lines 61-110: distance_vector with the node list ns and the neighbor map nb,
\* stopped after at most k rounds
RunOf(ns, nb, flag, k) ==
    RunTo(ns, nb, InitDist(ns, nb), InitNextHop(ns, nb), flag, 0, k)

(***************************************************************************)
(* The inputs.                                                             *)
(***************************************************************************)
SmallNodes == <<1, 2, 3>>

WideNodes == <<1, 2, 3, 4>>

LinkCosts == {1, 2}

\* links of a well-formed topology over WideNodes, each unordered pair written
\* with its smaller name first
GoodLinks ==
    {<<u, v, c>> : u \in Range(WideNodes), v \in Range(WideNodes), c \in LinkCosts}

RECURSIVE GoodEdgeLists(_)
GoodEdgeLists(k) ==
    IF k = 0 THEN {<<>>}
    ELSE LET shorter == GoodEdgeLists(k - 1)
         IN  shorter \cup
             {Append(s, e) : s \in {t \in shorter : Len(t) = k - 1},
                             e \in {l \in GoodLinks : l[1] < l[2]}}

NoRepeatedPair(es) ==
    \A i, j \in DOMAIN es : i # j => <<es[i][1], es[i][2]>> # <<es[j][1], es[j][2]>>

\* every list of at most MaxEdges links over WideNodes, no pair twice, in every order
ValidTopologies ==
    {[nodes |-> WideNodes, edges |-> es] :
        es \in {s \in GoodEdgeLists(MaxEdges) : NoRepeatedPair(s)}}

\* the rings: the node of every link list of four links in which every node of
\* WideNodes has two links, in every order (the smallest networks in which a node
\* has two cheapest paths through different neighbors)
Rings ==
    {[nodes |-> WideNodes, edges |-> es] :
        es \in {s \in GoodEdgeLists(Len(WideNodes)) :
                    /\ Len(s) = Len(WideNodes)
                    /\ NoRepeatedPair(s)
                    /\ \A n \in Range(WideNodes) :
                          Cardinality({i \in DOMAIN s : n \in {s[i][1], s[i][2]}}) = 2}}

\* links as a careless caller may write them over SmallNodes: a name that is not
\* listed (4), a link from a node to itself, a cost that is not positive
BadLinks ==
    {l \in {<<u, v, c>> : u \in 1..4, v \in 1..4, c \in {-1, 0, 1, 2}} :
        /\ l[1] <= l[2]
        /\ l[2] = 4 => l[3] = 1}

\* every list of at most two such links, which may name the same pair twice
MalformedTopologies ==
    {[nodes |-> SmallNodes, edges |-> es] :
        es \in {<<>>} \cup {<<a>> : a \in BadLinks} \cup {<<a, b>> : a, b \in BadLinks}}

\* the triangle of the specification and the network of the program's own main
Triangle == [nodes |-> SmallNodes, edges |-> << <<1, 2, 1>>, <<2, 3, 1>>, <<1, 3, 4>> >>]

MainExample ==
    [nodes |-> <<1, 2, 3, 4, 5>>,
     edges |-> << <<1, 2, 1>>, <<1, 3, 4>>, <<2, 3, 2>>, <<2, 4, 7>>, <<3, 5, 3>>, <<4, 5, 1>> >>]

Topologies == ValidTopologies \cup Rings \cup MalformedTopologies \cup {Triangle, MainExample}

(***************************************************************************)
(* The state machine of distance_vector.                                   *)
(***************************************************************************)
Unset == <<>>

Init ==
    /\ \E t \in Topologies : nodes = t.nodes /\ edges = t.edges
    /\ use_poisoned_reverse \in BOOLEAN
    /\ state = "start"
    /\ neighbors = Unset
    /\ dist = Unset
    /\ next_hop = Unset
    /\ iteration = 0
    /\ updated = FALSE
    /\ old_dist = Unset
    /\ old_next = Unset
    /\ advertised = Unset
    /\ result = Unset
    /\ sv_args = Unset
    /\ sv_vec = Unset
    /\ message = Unset
    /\ frame = Unset
    /\ recovered = Unset

\* line 61 and line 64: init_tables returns
InitTables ==
    /\ state = "start"
    /\ ~RaisesKeyError(nodes, edges)
    /\ neighbors' = InitNeighbors(nodes, edges)
    /\ dist' = InitDist(nodes, neighbors')
    /\ next_hop' = InitNextHop(nodes, neighbors')
    /\ iteration' = 0
    /\ state' = "Running"
    /\ UNCHANGED <<nodes, edges, use_poisoned_reverse, updated, old_dist, old_next,
                   advertised, result, sv_vars, st_vars>>

\* line 61: init_tables raises
InitTablesRaises ==
    /\ state = "start"
    /\ RaisesKeyError(nodes, edges)
    /\ state' = "KeyError"
    /\ UNCHANGED <<nodes, edges, use_poisoned_reverse, neighbors, dist, next_hop,
                   iteration, updated, old_dist, old_next, advertised, result, sv_vars, st_vars>>

\* lines 66-112 with T the tables at the end of the pass
Commit(T) ==
    /\ iteration' = iteration + 1
    /\ old_dist' = dist
    /\ old_next' = next_hop
    /\ dist' = T.dist
    /\ next_hop' = T.next_hop
    /\ updated' = T.updated
    /\ advertised' = T.advertised
    /\ state' = AfterRound(T.updated, iteration + 1)
    /\ result' = IF AfterRound(T.updated, iteration + 1) = "Running" THEN result
                 ELSE ReturnValue(T.dist, T.next_hop)

\* lines 65-112: one pass of the while loop, and the return when it breaks
Round ==
    /\ state = "Running"
    /\ \E T \in {RoundOf(nodes, neighbors, dist, next_hop, use_poisoned_reverse)} :
          Commit(T)
    /\ UNCHANGED <<nodes, edges, use_poisoned_reverse, neighbors, sv_vars, st_vars>>

Next == InitTables \/ InitTablesRaises \/ Round

Spec == Init /\ [][Next]_vars

FairSpec == Spec /\ WF_vars(Next)

(***************************************************************************)
(* A direct call of send_vector, as a unit test makes it: the sender's row *)
(* of dist (the argument dist_from) and, beside it, the sender's row of    *)
(* next_hop, which send_vector is not given.                               *)
(***************************************************************************)
\* the rows <<cost, next hop>> a table of three nodes can hold for the sender:
\* itself at cost 0, and every other destination unreachable, or a neighbor, or
\* reached through a neighbor at a higher cost than the neighbor
SenderRows(from_node) ==
    {r \in [Range(SmallNodes) -> ({<<INF, None>>} \cup ({0, 1, 2, 3} \X Range(SmallNodes)))] :
        /\ r[from_node] = <<0, from_node>>
        /\ \A d \in Range(SmallNodes) \ {from_node} :
              /\ r[d][1] # 0 /\ r[d][2] # from_node
              /\ (r[d][2] # None /\ r[d][2] # d) =>
                    r[r[d][2]][2] = r[d][2] /\ r[r[d][2]][1] < r[d][1]}

SendInit ==
    /\ nodes = SmallNodes
    /\ edges = <<>>
    /\ use_poisoned_reverse \in BOOLEAN
    /\ state = "send_vector"
    /\ neighbors = Unset
    /\ dist = Unset
    /\ next_hop = Unset
    /\ iteration = 0
    /\ updated = FALSE
    /\ old_dist = Unset
    /\ old_next = Unset
    /\ advertised = Unset
    /\ result = Unset
    /\ \E from_node, to_node \in Range(SmallNodes) : \E r \in SenderRows(from_node) :
          /\ from_node # to_node
          /\ sv_args = [from_node |-> from_node,
                        to_node |-> to_node,
                        dist_from |-> [d \in Range(SmallNodes) |-> r[d][1]],
                        next_from |-> [d \in Range(SmallNodes) |-> r[d][2]],
                        use_poisoned_reverse |-> use_poisoned_reverse]
    /\ sv_vec = Unset
    /\ message = Unset
    /\ frame = Unset
    /\ recovered = Unset

\* lines 43-58: the call returns
SendVector ==
    /\ state = "send_vector"
    /\ sv_vec = Unset
    /\ sv_vec' = send_vector(sv_args.from_node, sv_args.to_node, sv_args.dist_from,
                             sv_args.use_poisoned_reverse)
    /\ UNCHANGED <<dv_vars, sv_args, st_vars>>

SendNext == SendVector

SendSpec == SendInit /\ [][SendNext]_vars

(***************************************************************************)
(* src/Bit_stuffing.py.  A str is the sequence of its code points, a bit   *)
(* string the sequence of its bits (0 for '0', 1 for '1'), a bytes object  *)
(* the sequence of its bytes.  A function that can raise ValueError        *)
(* returns Raise or Return(v).                                             *)
(***************************************************************************)
FLAG_BITS == <<0, 1, 1, 1, 1, 1, 1, 0>>

FLAG == 126

ESC == 125

ESC_MASK == 32

Raise == [raises |-> TRUE]

Return(v) == [raises |-> FALSE, value |-> v]

\* the binary digits of n, most significant first, without leading zeros
RECURSIVE Binary(_)
Binary(n) == IF n < 2 THEN <<n>> ELSE Append(Binary(n \div 2), n % 2)

\* f'{n:08b}': the digits of n with zeros in front up to eight digits
PadTo8(b) == IF Len(b) >= 8 THEN b ELSE [i \in 1..(8 - Len(b)) |-> 0] \o b

Format08b(n) == The({PadTo8(b) : b \in {Binary(n)}})

\* line 19: ''.join(f'{ord(c):08b}' for c in s)
RECURSIVE to_bits(_)
to_bits(s) == IF s = <<>> THEN <<>> ELSE Format08b(Head(s)) \o to_bits(Tail(s))

\* int(byte, 2)
RECURSIVE ParseBinary(_)
ParseBinary(b) ==
    IF b = <<>> THEN 0 ELSE 2 * ParseBinary(SubSeq(b, 1, Len(b) - 1)) + b[Len(b)]

\* lines 23-26
from_bits(b) ==
    IF Len(b) % 8 # 0 THEN Raise
    ELSE Return([k \in 1..(Len(b) \div 8) |-> ParseBinary(SubSeq(b, 8 * k - 7, 8 * k))])

\* (mutant) the stuffed '0' is inserted after six '1's
StuffAfterSix(count_ones) == count_ones = 6

\* lines 44 and 68
RunOfFive(count_ones) == count_ones = 5

\* lines 41-49: <<stuffed_bits, count_ones>> after the bit
AfterBit(stuffed_bits, count_ones, bit) ==
    IF bit = 1
    THEN IF RunOfFive(count_ones + 1)
         THEN <<stuffed_bits \o <<bit, 0>>, 0>>
         ELSE <<Append(stuffed_bits, bit), count_ones + 1>>
    ELSE <<Append(stuffed_bits, bit), 0>>

\* lines 40-49: for bit in bits
RECURSIVE StuffLoop(_, _, _)
StuffLoop(bits, i, acc) ==
    IF i > Len(bits) THEN acc[1]
    ELSE The({StuffLoop(bits, i + 1, a) : a \in {AfterBit(acc[1], acc[2], bits[i])}})

\* lines 36-51
bit_stuff(data_str) ==
    The({FLAG_BITS \o StuffLoop(bits, 1, <<<<>>, 0>>) \o FLAG_BITS : bits \in {to_bits(data_str)}})

\* (mutant) the receiver keeps the bit after five '1's
UnstuffStepKeeps(inner, i, out_bits, count_ones) ==
    IF inner[i] = 1
    THEN <<i + 1, Append(out_bits, inner[i]), count_ones + 1>>
    ELSE <<i + 1, Append(out_bits, inner[i]), 0>>

\* lines 64-74: <<i, out_bits, count_ones>> after one pass of the while loop
UnstuffStep(inner, i, out_bits, count_ones) ==
    IF inner[i] = 1
    THEN IF RunOfFive(count_ones + 1)
         THEN <<i + 2, Append(out_bits, inner[i]), 0>>
         ELSE <<i + 1, Append(out_bits, inner[i]), count_ones + 1>>
    ELSE <<i + 1, Append(out_bits, inner[i]), 0>>

\* lines 63-74: while i < len(inner)  (i counts from 1 here)
RECURSIVE UnstuffLoop(_, _)
UnstuffLoop(inner, st) ==
    IF st[1] > Len(inner) THEN st[2]
    ELSE The({UnstuffLoop(inner, st1) : st1 \in {UnstuffStep(inner, st[1], st[2], st[3])}})

StartsWith(b, prefix) == Len(b) >= Len(prefix) /\ SubSeq(b, 1, Len(prefix)) = prefix

EndsWith(b, suffix) ==
    Len(b) >= Len(suffix) /\ SubSeq(b, Len(b) - Len(suffix) + 1, Len(b)) = suffix

\* line 59: frame_bits[len(FLAG_BITS):-len(FLAG_BITS)]
Inner(frame_bits) == SubSeq(frame_bits, Len(FLAG_BITS) + 1, Len(frame_bits) - Len(FLAG_BITS))

\* lines 56-79
bit_unstuff(frame_bits) ==
    IF ~(StartsWith(frame_bits, FLAG_BITS) /\ EndsWith(frame_bits, FLAG_BITS)) THEN Raise
    ELSE from_bits(UnstuffLoop(Inner(frame_bits), <<1, <<>>, 0>>))

\* a ^ b on non-negative integers
RECURSIVE Xor(_, _)
Xor(a, b) ==
    IF a = 0 /\ b = 0 THEN 0
    ELSE (((a % 2) + (b % 2)) % 2) + 2 * Xor(a \div 2, b \div 2)

\* (mutant) the escaped byte is sent as it is
StuffByteUnmasked(b) == IF b = FLAG \/ b = ESC THEN <<ESC, b>> ELSE <<b>>

\* lines 88-92: what char_stuff appends for the byte b
StuffByte(b) == IF b = FLAG \/ b = ESC THEN <<ESC, Xor(b, ESC_MASK)>> ELSE <<b>>

\* lines 87-92
RECURSIVE StuffBytes(_)
StuffBytes(data_bytes) ==
    IF data_bytes = <<>> THEN <<>>
    ELSE StuffByte(Head(data_bytes)) \o StuffBytes(Tail(data_bytes))

\* lines 84-94
char_stuff(data_bytes) == <<FLAG>> \o StuffBytes(data_bytes) \o <<FLAG>>

\* lines 105-113: while i < len(inner)  (i counts from 1 here)
RECURSIVE CharUnstuffLoop(_, _, _)
CharUnstuffLoop(inner, i, out) ==
    IF i > Len(inner) THEN Return(out)
    ELSE IF inner[i] = ESC
         THEN IF i + 1 > Len(inner) THEN Raise
              ELSE CharUnstuffLoop(inner, i + 2, Append(out, Xor(inner[i + 1], ESC_MASK)))
         ELSE CharUnstuffLoop(inner, i + 1, Append(out, inner[i]))

\* lines 99-114
char_unstuff(fr) ==
    IF Len(fr) < 2 \/ fr[1] # FLAG \/ fr[Len(fr)] # FLAG THEN Raise
    ELSE CharUnstuffLoop(SubSeq(fr, 2, Len(fr) - 1), 1, <<>>)

(***************************************************************************)
(* The messages: every string of at most MaxChars characters of Chars, and *)
(* the messages of run_demos.                                              *)
(***************************************************************************)
\* code points 0..255 chosen for their bits: runs of '1's at either end of the
\* byte (15, 31, 63, 127, 240, 248, 252, 255), FLAG and ESC and their masked forms
\* (126, 125, 94, 93), and bytes without a long run (0, 65, 128)
Chars == {0, 15, 31, 63, 65, 93, 94, 125, 126, 127, 128, 240, 248, 252, 255}

RECURSIVE StringsUpTo(_)
StringsUpTo(k) ==
    IF k = 0 THEN {<<>>}
    ELSE The({shorter \cup {Append(s, c) : s \in {t \in shorter : Len(t) = k - 1}, c \in Chars} :
                 shorter \in {StringsUpTo(k - 1)}})

\* lines 160-171: "A~}B", "A}B", "Hello"
DemoMessages ==
    {<<65, 126, 125, 66>>, <<65, 125, 66>>, <<72, 101, 108, 108, 111>>}

Messages == StringsUpTo(MaxChars) \cup DemoMessages

(***************************************************************************)
(* The sender and the receiver of demo_bit_stuffing.                       *)
(***************************************************************************)
FramingInit(first) ==
    /\ nodes = <<>> /\ edges = <<>> /\ use_poisoned_reverse = FALSE
    /\ neighbors = Unset /\ dist = Unset /\ next_hop = Unset
    /\ iteration = 0 /\ updated = FALSE
    /\ old_dist = Unset /\ old_next = Unset /\ advertised = Unset /\ result = Unset
    /\ sv_args = Unset /\ sv_vec = Unset
    /\ message \in Messages
    /\ state = first
    /\ frame = Unset
    /\ recovered = Unset

BitInit == FramingInit("bit_stuff")

\* line 125: stuffed_frame = bit_stuff(message)
BitStuff ==
    /\ state = "bit_stuff"
    /\ frame' = bit_stuff(message)
    /\ state' = "bit_unstuff"
    /\ UNCHANGED <<nodes, edges, use_poisoned_reverse, neighbors, dist, next_hop, iteration,
                   updated, old_dist, old_next, advertised, result, sv_vars, message, recovered>>

\* line 130: recovered = bit_unstuff(stuffed_frame)
BitUnstuff ==
    /\ state = "bit_unstuff"
    /\ recovered' = bit_unstuff(frame)
    /\ state' = IF recovered'.raises THEN "ValueError" ELSE "done"
    /\ UNCHANGED <<nodes, edges, use_poisoned_reverse, neighbors, dist, next_hop, iteration,
                   updated, old_dist, old_next, advertised, result, sv_vars, message, frame>>

BitNext == BitStuff \/ BitUnstuff

BitSpec == BitInit /\ [][BitNext]_vars

(***************************************************************************)
(* The sender and the receiver of demo_char_stuffing.                      *)
(***************************************************************************)
CharInit == FramingInit("char_stuff")

\* line 139: framed = char_stuff(mbytes)
CharStuff ==
    /\ state = "char_stuff"
    /\ frame' = char_stuff(message)
    /\ state' = "char_unstuff"
    /\ UNCHANGED <<nodes, edges, use_poisoned_reverse, neighbors, dist, next_hop, iteration,
                   updated, old_dist, old_next, advertised, result, sv_vars, message, recovered>>

\* line 153: recovered_bytes = char_unstuff(framed)
CharUnstuff ==
    /\ state = "char_unstuff"
    /\ recovered' = char_unstuff(frame)
    /\ state' = IF recovered'.raises THEN "ValueError" ELSE "done"
    /\ UNCHANGED <<nodes, edges, use_poisoned_reverse, neighbors, dist, next_hop, iteration,
                   updated, old_dist, old_next, advertised, result, sv_vars, message, frame>>

CharNext == CharStuff \/ CharUnstuff

CharSpec == CharInit /\ [][CharNext]_vars

(***************************************************************************)
(* What the claims speak of.                                               *)
(***************************************************************************)
Terminal == {"Converged", "AbortedOnIterationLimit", "KeyError"}

Returned == state \in {"Converged", "AbortedOnIterationLimit"}

HasTables == state \in {"Running", "Converged", "AbortedOnIterationLimit"}

RoundEnded == HasTables /\ iteration >= 1

NodeSet == Range(nodes)

Min(S) == CHOOSE x \in S : \A y \in S : x <= y

\* every link joins two distinct listed nodes and has a positive cost
ListedEnds == \A i \in DOMAIN edges : edges[i][1] \in NodeSet /\ edges[i][2] \in NodeSet

DistinctEnds == \A i \in DOMAIN edges : edges[i][1] # edges[i][2]

PositiveCosts == \A i \in DOMAIN edges : edges[i][3] > 0

SamePair(e, f) == {e[1], e[2]} = {f[1], f[2]}

OneLinkPerPair == \A i, j \in DOMAIN edges : i # j => ~SamePair(edges[i], edges[j])

\* the nodes that links join, directly or through others, to the nodes of S
RECURSIVE JoinedTo(_)
JoinedTo(S) ==
    IF \E i \in DOMAIN edges : (edges[i][1] \in S) # (edges[i][2] \in S)
    THEN JoinedTo(S \cup UNION {{edges[i][1], edges[i][2]} :
                                  i \in {j \in DOMAIN edges : edges[j][1] \in S \/ edges[j][2] \in S}})
    ELSE S

\* the links of an unordered pair, and the cheapest of them (INF when there is none)
LinksOf(u, v) == {i \in DOMAIN edges : {edges[i][1], edges[i][2]} = {u, v}}

Linked(u, v) == LinksOf(u, v) # {}

LinkCost(u, v) ==
    IF Linked(u, v) THEN Min({edges[i][3] : i \in LinksOf(u, v)}) ELSE INF

\* the cost matrix of the graph: W[u][v] is LinkCost(u, v)
CostMatrix == [u \in NodeSet |-> [v \in NodeSet |-> LinkCost(u, v)]]

\* P[u][d] is the cheapest cost of a path of at most k links; one link more
OneMoreLink(P, W) ==
    [u \in NodeSet |-> [d \in NodeSet |->
        Min({P[u][d]} \cup
            {W[u][w] + P[w][d] : w \in {x \in NodeSet : W[u][x] < INF /\ P[x][d] < INF}})]]

\* the cheapest cost of a path of at most k links between every two nodes
RECURSIVE CheapestVia(_, _)
CheapestVia(W, k) ==
    IF k = 0 THEN [u \in NodeSet |-> [d \in NodeSet |-> IF u = d THEN 0 ELSE INF]]
    ELSE The({OneMoreLink(P, W) : P \in {CheapestVia(W, k - 1)}})

CheapestWithin(k) == The({CheapestVia(W, k) : W \in {CostMatrix}})

\* a cheapest path visits no node twice when the costs are positive
Cheapest == CheapestWithin(Len(nodes) - 1)

Connected == JoinedTo({nodes[1]}) = NodeSet

\* the topology as the claim about shortest paths describes a valid one
DescribedValid == ListedEnds /\ DistinctEnds /\ PositiveCosts

\* the topology as the data model wants it: also at most one link per pair
WellFormed == DescribedValid /\ OneLinkPerPair

IsTriangle == nodes = Triangle.nodes /\ edges = Triangle.edges

(***************************************************************************)
(* C1: for every valid topology (links join two distinct listed nodes,     *)
(* positive costs) and both flag values, when distance_vector stops        *)
(* because a round made no change, dist[u][d] is the cost of a cheapest    *)
(* path from u to d, and INF when there is none; the triangle ends with    *)
(* dist[1][3] = 2 and next_hop[1][3] = 2.                                  *)
(***************************************************************************)
C1_ShortestPaths ==
    (state = "Converged" /\ DescribedValid) =>
        /\ dist = Cheapest
        /\ IsTriangle => dist[1][3] = 2 /\ next_hop[1][3] = 2

\* the same with at most one link per unordered pair, as the data model has it
ShortestPathsWhenWellFormed ==
    (state = "Converged" /\ WellFormed) =>
        /\ dist = Cheapest
        /\ IsTriangle => dist[1][3] = 2 /\ next_hop[1][3] = 2

TriangleConverged == state = "Converged" /\ IsTriangle /\ dist[1][3] = 2

(***************************************************************************)
(* C2: in every round, the vector that neighbor v advertises to u is       *)
(* computed from the tables as they were at the start of the round: INF    *)
(* when the flag is on and v's start-of-round next hop to d is u, and      *)
(* otherwise v's start-of-round cost to d.                                 *)
(***************************************************************************)
C2_AdvertisedFromSnapshot ==
    RoundEnded =>
        /\ DOMAIN advertised = {p \in NodeSet \X NodeSet : p[1] \in Keys(neighbors[p[2]])}
        /\ \A p \in DOMAIN advertised : \A d \in NodeSet :
              advertised[p][d] =
                  IF use_poisoned_reverse /\ old_next[p[1]][d] = p[2]
                  THEN INF
                  ELSE old_dist[p[1]][d]

\* a round in which a finite cost was poisoned, and in which the sender's own
\* table changed after the snapshot
C2_Witness ==
    /\ RoundEnded
    /\ use_poisoned_reverse
    /\ \E p \in DOMAIN advertised : \E d \in NodeSet :
          /\ advertised[p][d] = INF
          /\ old_dist[p[1]][d] < INF
          /\ dist[p[1]] # old_dist[p[1]]

(***************************************************************************)
(* C3: send_vector(from_node, to_node, dist_from, TRUE) advertises INF for *)
(* every destination whose next hop at from_node is to_node and the cost   *)
(* of dist_from for every other one; with FALSE it returns dist_from.      *)
(***************************************************************************)
C3_SendVectorPoisons ==
    sv_vec # Unset =>
        \A d \in DOMAIN sv_args.dist_from :
            sv_vec[d] =
                IF sv_args.use_poisoned_reverse /\ sv_args.next_from[d] = sv_args.to_node
                THEN INF
                ELSE sv_args.dist_from[d]

(***************************************************************************)
(* C4: for every node u, dist[u][u] = 0 and next_hop[u][u] = u right after *)
(* init_tables and after every round, for both flag values.                *)
(***************************************************************************)
C4_SelfRoute ==
    HasTables => \A u \in NodeSet : dist[u][u] = 0 /\ next_hop[u][u] = u

\* the same on the topologies the data model allows
SelfRouteWhenWellFormed ==
    (HasTables /\ WellFormed) => \A u \in NodeSet : dist[u][u] = 0 /\ next_hop[u][u] = u

(***************************************************************************)
(* C5: no round raises a stored cost: dist[u][d] after a round is at most  *)
(* dist[u][d] before it.                                                   *)
(***************************************************************************)
C5_CostsNeverRise ==
    [][HasTables => \A u, d \in NodeSet : dist'[u][d] <= dist[u][d]]_vars

C5_Witness ==
    RoundEnded /\ \E u, d \in NodeSet : dist[u][d] < old_dist[u][d]

(***************************************************************************)
(* C6: on a connected topology with positive link costs distance_vector    *)
(* comes to a round that changes nothing and stops as Converged, not by    *)
(* the iteration limit; the round that changes nothing is at the latest    *)
(* round number (number of nodes), so one of the first 10 for at most 10   *)
(* nodes.  (While it runs a next step is possible and fewer rounds than    *)
(* nodes are done, so the round that changes nothing comes.)               *)
(***************************************************************************)
ConnectedPositive == ListedEnds /\ PositiveCosts /\ Connected

C7_Driver ==
    /\ [](state \in {"start", "KeyError"} => iteration = 0)
    /\ [][state = "start" => iteration' = 0]_vars
    /\ [][state = "Running" =>
            /\ iteration' = iteration + 1
            /\ state' = "Converged" <=> ~updated'
            /\ state' = "AbortedOnIterationLimit" <=> (updated' /\ iteration' > SafetyLimit)
            /\ state' = "Running" <=> (updated' /\ iteration' <= SafetyLimit)]_vars
    /\ [][state \notin Terminal]_vars
    /\ [](iteration <= SafetyLimit + 1)
    /\ [](state \notin Terminal => ENABLED Next)

C7_Witness == state = "AbortedOnIterationLimit" /\ iteration = SafetyLimit + 1 /\ updated

(***************************************************************************)
(* C8: on both terminal states the result of distance_vector carries,      *)
(* besides dist and next_hop, the iteration count reached and which        *)
(* terminal state was reached.                                             *)
(***************************************************************************)
C8_ResultTellsOutcome ==
    Returned =>
        /\ {"dist", "next_hop", "iteration", "state"} \subseteq DOMAIN result
        /\ result.iteration = iteration
        /\ result.state = state

(***************************************************************************)
(* C9: a link list that names a node that is not listed, has a cost <= 0,  *)
(* or has the same unordered pair twice with conflicting costs fails with  *)
(* InvalidTopologyError at construction: no round runs and no tables are   *)
(* produced.                                                               *)
(***************************************************************************)
ConflictingPair ==
    \E i, j \in DOMAIN edges : SamePair(edges[i], edges[j]) /\ edges[i][3] # edges[j][3]

Malformed == ~ListedEnds \/ ~PositiveCosts \/ ConflictingPair

C9_MalformedRejected ==
    Malformed =>
        /\ state \in {"start", "InvalidTopologyError"}
        /\ dist = Unset /\ next_hop = Unset /\ iteration = 0

(***************************************************************************)
(* C10: for a fixed valid topology and flag, the costs after every round,  *)
(* the final costs, the terminal state and the number of rounds are the    *)
(* same for every order in which the nodes and each node's neighbors are   *)
(* visited: after round k, dist[u][d] is the cost of a cheapest path of at *)
(* most k + 1 links in the neighbor map, the loop stops as Converged at    *)
(* the first round that adds nothing to these costs, and a run that visits *)
(* in another order has the same costs, counter and state.  The order of   *)
(* the nodes changes nothing at all.  (Next hops are left out: see         *)
(* C10_SameForEveryOrder.)                                                 *)
(***************************************************************************)
\* what the neighbor map says a link costs (INF when there is none)
NeighborCost ==
    [u \in NodeSet |-> [v \in NodeSet |->
        IF v \in Keys(neighbors[u]) THEN DictGet(neighbors[u], v) ELSE INF]]

CheapestByNeighbors(k) == The({CheapestVia(W, k) : W \in {NeighborCost}})

\* the same neighbor map with every node's neighbors in the opposite order
ReversedNeighbors == [u \in DOMAIN neighbors |-> Reverse(neighbors[u])]

\* the run so far, had the nodes been visited in the opposite order
OtherNodeOrder == RunOf(Reverse(nodes), neighbors, use_poisoned_reverse, iteration)

\* the run so far, had every node's neighbors been visited in the opposite order
OtherNeighborOrder == RunOf(nodes, ReversedNeighbors, use_poisoned_reverse, iteration)

C10_CostsSameForEveryOrder ==
    (HasTables /\ DescribedValid) =>
        /\ dist = CheapestByNeighbors(iteration + 1)
        /\ state # "AbortedOnIterationLimit"
        /\ state = "Converged" <=> (iteration >= 1 /\ dist = CheapestByNeighbors(iteration))
        /\ WellFormed => ReversedNeighbors = InitNeighbors(nodes, Reverse(edges))
        /\ \A alt \in {OtherNodeOrder} :
              /\ alt.dist = dist /\ alt.next_hop = next_hop
              /\ alt.iteration = iteration /\ alt.state = state
        /\ \A alt \in {OtherNeighborOrder} :
              alt.dist = dist /\ alt.iteration = iteration /\ alt.state = state

\* a finished run whose next hops, and nothing else, depend on the order in which
\* the neighbors are visited
C10_Witness ==
    /\ state = "Converged" /\ WellFormed /\ iteration >= 2
    /\ \E alt \in {OtherNeighborOrder} :
          alt.next_hop # next_hop /\ alt.dist = dist /\ alt.iteration = iteration

\* the claim as stated: the next hops are the same too
C10_SameForEveryOrder ==
    (RoundEnded /\ WellFormed) =>
        \A alt \in {OtherNodeOrder, OtherNeighborOrder} :
            /\ alt.dist = dist /\ alt.next_hop = next_hop
            /\ alt.iteration = iteration /\ alt.state = state

(***************************************************************************)
(* C11: when distance_vector has stopped as Converged (its last round made *)
(* no change), the same round run once more on the tables it returned      *)
(* changes no dist entry and no next_hop entry and reports no update, for  *)
(* both flag values.                                                       *)
(***************************************************************************)
\* one more round on the tables of the current state
OneMoreRound == RoundOf(nodes, neighbors, dist, next_hop, use_poisoned_reverse)

C11_FixedPoint ==
    state = "Converged" =>
        \A T \in {OneMoreRound} :
            /\ T.dist = dist
            /\ T.next_hop = next_hop
            /\ ~T.updated

\* a converged run that took several rounds, with the flag on
C11_Witness ==
    /\ state = "Converged" /\ iteration >= 3 /\ use_poisoned_reverse
    /\ dist = old_dist /\ next_hop = old_next /\ ~updated

(***************************************************************************)
(* C12: a node x without a link keeps dist[x][d] = INF and                 *)
(* next_hop[x][d] = None for every d # x, and every u # x keeps            *)
(* dist[u][x] = INF and next_hop[u][x] = None, from init_tables through    *)
(* the final tables; more generally a destination that no chain of links   *)
(* joins to u never gets a finite cost or a next hop at u.                 *)
(***************************************************************************)
NoRoute(u, d) == dist[u][d] = INF /\ next_hop[u][d] = None

Isolated(x) == \A i \in DOMAIN edges : x \notin {edges[i][1], edges[i][2]}

C12_UnreachableStaysUnreachable ==
    HasTables =>
        /\ \A x \in NodeSet : Isolated(x) =>
              \A d \in NodeSet \ {x} : NoRoute(x, d) /\ NoRoute(d, x)
        /\ \A u \in NodeSet : \A S \in {JoinedTo({u})} :
              \A d \in NodeSet \ S : NoRoute(u, d)

\* the same when every link cost is positive
UnreachableWhenPositive ==
    (HasTables /\ PositiveCosts) =>
        /\ \A x \in NodeSet : Isolated(x) =>
              \A d \in NodeSet \ {x} : NoRoute(x, d) /\ NoRoute(d, x)
        /\ \A u \in NodeSet : \A S \in {JoinedTo({u})} :
              \A d \in NodeSet \ S : NoRoute(u, d)

(***************************************************************************)
(* C13: an entry (u, d) is rewritten only by a strictly lower cost: across *)
(* every round, an entry whose cost ends equal to its start-of-round value *)
(* keeps its next hop, and an entry that changed has a lower cost; an      *)
(* equal-cost alternative never replaces an established next hop.          *)
(***************************************************************************)
C13_TiesKeepNextHop ==
    [][state = "Running" =>
        \A u, d \in NodeSet :
            /\ dist'[u][d] = dist[u][d] => next_hop'[u][d] = next_hop[u][d]
            /\ dist'[u][d] # dist[u][d] => dist'[u][d] < dist[u][d]]_vars

\* a round in which a neighbor other than the next hop offered the stored cost
C13_Witness ==
    /\ RoundEnded
    /\ \E u, d \in NodeSet : \E i \in DOMAIN neighbors[u] :
          /\ d # u
          /\ neighbors[u][i][1] # next_hop[u][d]
          /\ neighbors[u][i][2] + advertised[<<neighbors[u][i][1], u>>][d] = dist[u][d]
          /\ dist[u][d] = old_dist[u][d]
          /\ next_hop[u][d] = old_next[u][d]

(***************************************************************************)
(* C14: for every string s of code points 0..255, the empty string and     *)
(* strings whose bits end in five '1's included,                           *)
(* bit_unstuff(bit_stuff(s)) returns s (and does not raise).               *)
(***************************************************************************)
C14_BitRoundTrip ==
    state \in {"done", "ValueError"} =>
        /\ state = "done"
        /\ recovered = Return(message)

EndsInFiveOnes(bits) ==
    Len(bits) >= 5 /\ \A i \in (Len(bits) - 4)..Len(bits) : bits[i] = 1

\* a message whose bits end in five '1's went through and is longer in the frame
C14_Witness ==
    /\ state = "done"
    /\ EndsInFiveOnes(to_bits(message))
    /\ Len(frame) > 2 * Len(FLAG_BITS) + 8 * Len(message)
    /\ recovered = Return(message)

\* the empty string went through
EmptyRoundTrip == state = "done" /\ message = <<>> /\ recovered = Return(<<>>)

(***************************************************************************)
(* C15: for every byte string b, with FLAG (0x7E) and ESC (0x7D) bytes or  *)
(* without, char_unstuff(char_stuff(b)) returns b, and no byte of          *)
(* char_stuff(b) strictly between its first and its last byte is FLAG.     *)
(***************************************************************************)
C15_CharRoundTrip ==
    state \in {"char_unstuff", "done", "ValueError"} =>
        /\ \A i \in 2..(Len(frame) - 1) : frame[i] # FLAG
        /\ state # "ValueError"
        /\ state = "done" => recovered = Return(message)

\* a message with a FLAG byte and an ESC byte went through
C15_Witness ==
    /\ state = "done"
    /\ FLAG \in Range(message) /\ ESC \in Range(message)
    /\ Len(frame) = Len(message) + 4
    /\ recovered = Return(message)

(***************************************************************************)
(* C16: a round is a synchronous Bellman-Ford step over the start-of-round *)
(* snapshot: after the round dist[u][d] is the minimum of dist[u][d]       *)
(* before the round and, over the neighbors v of u, cost(u, v) + the cost  *)
(* v advertises to u for d from v's start-of-round table; the vector v     *)
(* advertised is the one of its start-of-round table also when v's own     *)
(* table was rewritten earlier in the round.                               *)
(***************************************************************************)
\* what v tells u about d, from the snapshot
SnapshotAdvert(v, u, d) ==
    IF use_poisoned_reverse /\ old_next[v][d] = u THEN INF ELSE old_dist[v][d]

BellmanFordStep(u, d) ==
    Min({old_dist[u][d]} \cup
        {neighbors[u][i][2] + SnapshotAdvert(neighbors[u][i][1], u, d) : i \in DOMAIN neighbors[u]})

C16_RoundIsBellmanFordStep ==
    RoundEnded =>
        /\ \A u, d \in NodeSet : dist[u][d] = BellmanFordStep(u, d)
        /\ \A u \in NodeSet : \A i \in DOMAIN neighbors[u] : \A d \in NodeSet :
              advertised[<<neighbors[u][i][1], u>>][d] = SnapshotAdvert(neighbors[u][i][1], u, d)

\* a round in which a node visited early was rewritten and a node visited later,
\* its neighbor, still heard the old cost from it
C16_Witness ==
    /\ RoundEnded
    /\ \E i, j \in DOMAIN nodes : \E d \in NodeSet :
          /\ i < j
          /\ nodes[i] \in Keys(neighbors[nodes[j]])
          /\ dist[nodes[i]][d] < old_dist[nodes[i]][d]
          /\ advertised[<<nodes[i], nodes[j]>>][d] = old_dist[nodes[i]][d]
          /\ dist[nodes[j]][d] < old_dist[nodes[j]][d]

(***************************************************************************)
(* C17: in every state of distance_vector on a valid topology, for all u   *)
(* and d: 0 <= dist[u][d] <= INF, next_hop[u][d] is None exactly when      *)
(* dist[u][d] = INF, and for d # u a next hop that is not None is a direct *)
(* neighbor of u.                                                          *)
(***************************************************************************)
C17_TableInvariants ==
    (HasTables /\ DescribedValid) =>
        \A u, d \in NodeSet :
            /\ 0 <= dist[u][d] /\ dist[u][d] <= INF
            /\ next_hop[u][d] = None <=> dist[u][d] = INF
            /\ (d # u /\ next_hop[u][d] # None) => next_hop[u][d] \in Keys(neighbors[u])

\* final tables with an unreachable destination and a destination behind a neighbor
C17_Witness ==
    /\ state = "Converged" /\ DescribedValid
    /\ \E u, d \in NodeSet : dist[u][d] = INF /\ next_hop[u][d] = None
    /\ \E u, d \in NodeSet :
          d # u /\ next_hop[u][d] \notin {None, d} /\ next_hop[u][d] \in Keys(neighbors[u])

(***************************************************************************)
(* C18: on a valid topology the run with use_poisoned_reverse = TRUE and   *)
(* the run with FALSE have the same dist and next_hop tables after every   *)
(* round and stop after the same number of rounds; a cost that was         *)
(* advertised as INF by poisoning would not have been a strict improvement *)
(* at the receiver.                                                        *)
(***************************************************************************)
\* the run so far with the other value of the flag
OtherFlag == RunOf(nodes, neighbors, ~use_poisoned_reverse, iteration)

\* v's start-of-round route to d goes through u
Poisonable(v, u, d) == old_next[v][d] = u /\ old_dist[v][d] < INF

C18_PoisonChangesNothing ==
    (HasTables /\ DescribedValid) =>
        /\ \A alt \in {OtherFlag} :
              /\ alt.dist = dist /\ alt.next_hop = next_hop
              /\ alt.iteration = iteration /\ alt.state = state
        /\ iteration >= 1 =>
              \A u \in NodeSet : \A i \in DOMAIN neighbors[u] : \A d \in NodeSet :
                  Poisonable(neighbors[u][i][1], u, d) =>
                      neighbors[u][i][2] + old_dist[neighbors[u][i][1]][d] > old_dist[u][d]

\* a round with the flag on in which a finite cost was advertised as INF
C18_Witness ==
    /\ RoundEnded /\ DescribedValid /\ use_poisoned_reverse /\ iteration >= 2
    /\ \E p \in DOMAIN advertised : \E d \in NodeSet :
          advertised[p][d] = INF /\ Poisonable(p[1], p[2], d)
    /\ OtherFlag.dist = dist /\ OtherFlag.next_hop = next_hop

(***************************************************************************)
(* C19: when distance_vector stops as Converged on a valid topology, for   *)
(* every u and d # u with a finite dist[u][d] the next hop v =              *)
(* next_hop[u][d] is a neighbor with dist[u][d] = cost(u, v) + dist[v][d]; *)
(* following the next hops from u the remaining cost falls at every hop    *)
(* and d is reached without a node being visited twice.                    *)
(***************************************************************************)
\* the nodes on the way from u to d by next hops, or <<>> when a node comes twice
\* or there is no next hop
RECURSIVE Route(_, _, _)
Route(u, d, seen) ==
    IF u = d THEN Append(seen, d)
    ELSE IF u \in Range(seen) \/ next_hop[u][d] \notin NodeSet THEN <<>>
    ELSE Route(next_hop[u][d], d, Append(seen, u))

C19_NextHopsConsistent ==
    (state = "Converged" /\ DescribedValid) =>
        \A u, d \in NodeSet : (d # u /\ dist[u][d] < INF) =>
            /\ next_hop[u][d] \in Keys(neighbors[u])
            /\ dist[u][d] = DictGet(neighbors[u], next_hop[u][d]) + dist[next_hop[u][d]][d]
            /\ dist[next_hop[u][d]][d] < dist[u][d]
            /\ \A r \in {Route(u, d, <<>>)} :
                  /\ r # <<>> /\ r[1] = u /\ r[Len(r)] = d
                  /\ \A i, j \in DOMAIN r : i # j => r[i] # r[j]

\* final tables with a route of three hops
C19_Witness ==
    /\ state = "Converged" /\ DescribedValid
    /\ \E u, d \in NodeSet : Len(Route(u, d, <<>>)) >= 4

(***************************************************************************)
(* C20: for every input string of code points 0..255, the bits of          *)
(* bit_stuff's output between the leading and the trailing FLAG_BITS have  *)
(* no six '1's in a row: a '0' follows every five '1's in a row, and the   *)
(* flag pattern 01111110 occurs nowhere in them.                           *)
(***************************************************************************)
\* the bits of b from place i on begin with w
OccursAt(b, i, w) == i + Len(w) - 1 <= Len(b) /\ SubSeq(b, i, i + Len(w) - 1) = w

C20_NoFlagInPayload ==
    state \in {"bit_unstuff", "done", "ValueError"} =>
        /\ StartsWith(frame, FLAG_BITS) /\ EndsWith(frame, FLAG_BITS)
        /\ Len(frame) >= 2 * Len(FLAG_BITS)
        /\ \A payload \in {Inner(frame)} : \A i \in DOMAIN payload :
              /\ ~OccursAt(payload, i, <<1, 1, 1, 1, 1, 1>>)
              /\ OccursAt(payload, i, <<1, 1, 1, 1, 1>>) => OccursAt(payload, i + 5, <<0>>)
              /\ ~OccursAt(payload, i, FLAG_BITS)

\* a message with more than five '1's in a row, across two characters, was framed
C20_Witness ==
    /\ state = "bit_unstuff"
    /\ \E i \in DOMAIN to_bits(message) :
          OccursAt(to_bits(message), i, <<0, 1, 1, 1, 1, 1, 1, 1, 1, 1, 1, 1>>)
    /\ Len(Inner(frame)) >= 8 * Len(message) + 2

=============================================================================
